---- MODULE Spec2Model ----
(***************************************************************************)
(* Model of the xtask release-packaging pipeline (xtask/src/main.rs):      *)
(* build_full and the functions it calls: get_version, build_webui,        *)
(* compile_core, update_module_prop, and the archive step.                 *)
(*                                                                         *)
(* Text is a sequence of one-character strings, so that the string         *)
(* operations of the code (lines, trim, starts_with, split, join, format)  *)
(* are computed character by character.                                    *)
(***************************************************************************)
EXTENDS Integers, Sequences, FiniteSets, TLC

VARIABLES
    \* ---- get_version, taken alone (SpecVersion)
    vEnv,       \* env::var("META_HYBRID_VERSION")
    vGit,       \* outcome of `git describe --tags --always --dirty`
    vToml,      \* module/config.toml
    vRes,       \* result of get_version, NoResult before the call
    \* ---- update_module_prop, taken alone (SpecPatch)
    mInput,     \* the manifest file before the first call ([exists, content])
    mFile,      \* the manifest file now
    mVersion,   \* the version argument
    mEnvCode,   \* env::var("META_HYBRID_CODE")
    mCalls,     \* number of calls made on the file
    mOnce,      \* the file after the first call
    \* ---- build_full (Spec)
    pc,         \* the step build_full is at
    inv,        \* number of invocations of the build command so far
    args,       \* arguments of this invocation: release, skip_webui, target_arch
    version,    \* `version` of build_full
    idx,        \* place of the loop over archs_to_build
    out,        \* the output root: the staging tree and the archives in it
    webConst,   \* APP_VERSION of webui/src/lib/constants_gen.ts, <<>> if none
    log,        \* what this invocation did so far, in order
    present,    \* architectures whose binary was found by this invocation
    overlay,    \* paths the module directory supplied to this invocation
    stale,      \* the output root held staged files when this invocation began
    staleZip    \* the output root held an archive when this invocation began

varsVersion == <<vEnv, vGit, vToml, vRes>>
varsPatch == <<mInput, mFile, mVersion, mEnvCode, mCalls, mOnce>>
varsBuild == <<pc, inv, args, version, idx, out, webConst, log, present, overlay, stale, staleZip>>
vars == <<varsVersion, varsPatch, varsBuild>>

-----------------------------------------------------------------------------
(* Characters and text                                                     *)

LF == "\n"
CR == "\r"
QUOTE == "\""
Whitespace == {" ", "\t", LF, CR}

\* str::starts_with
StartsWith(s, p) == Len(s) >= Len(p) /\ SubSeq(s, 1, Len(p)) = p

Contains(s, c) == \E i \in 1..Len(s) : s[i] = c

FirstIndex(s, c) == CHOOSE i \in 1..Len(s) : s[i] = c /\ \A j \in 1..(i - 1) : s[j] # c

RECURSIVE TrimStart(_)
TrimStart(s) ==
    IF s = <<>> \/ Head(s) \notin Whitespace THEN s ELSE TrimStart(Tail(s))

RECURSIVE TrimEnd(_)
TrimEnd(s) ==
    IF s = <<>> \/ s[Len(s)] \notin Whitespace THEN s
    ELSE TrimEnd(SubSeq(s, 1, Len(s) - 1))

\* str::trim
Trim(s) == TrimEnd(TrimStart(s))

\* str::split(c): the pieces between the occurrences of c, one more than
\* there are occurrences.
RECURSIVE Split(_, _)
Split(s, c) ==
    IF ~Contains(s, c) THEN <<s>>
    ELSE LET i == FirstIndex(s, c)
         IN  <<SubSeq(s, 1, i - 1)>> \o Split(SubSeq(s, i + 1, Len(s)), c)

\* str::lines: each line ends at a "\n"; the "\n" is dropped, and a "\r"
\* right before it; a last line without "\n" is kept as it is; the empty
\* text has no line.
RECURSIVE Lines(_)
Lines(s) ==
    IF s = <<>> THEN <<>>
    ELSE IF ~Contains(s, LF) THEN <<s>>
    ELSE LET i == FirstIndex(s, LF)
             raw == SubSeq(s, 1, i - 1)
             line == IF raw # <<>> /\ raw[Len(raw)] = CR
                     THEN SubSeq(raw, 1, Len(raw) - 1) ELSE raw
         IN  <<line>> \o Lines(SubSeq(s, i + 1, Len(s)))

\* [String]::join(sep)
RECURSIVE Join(_, _)
Join(ls, sep) ==
    IF ls = <<>> THEN <<>>
    ELSE IF Len(ls) = 1 THEN ls[1]
    ELSE ls[1] \o sep \o Join(Tail(ls), sep)

-----------------------------------------------------------------------------
(* get_version                                                             *)

sVersion == <<"v", "e", "r", "s", "i", "o", "n">>
sDev == <<"-", "d", "e", "v">>
Sentinel == <<"v", "0", ".", "0", ".", "0", "-", "u", "n", "k", "n", "o", "w", "n">>

Ok(v) == [ok |-> TRUE, val |-> v]
Err == [ok |-> FALSE, val |-> <<>>]
NoResult == [ok |-> FALSE, val |-> <<"?">>]

\* The loop over content.lines() of get_version: the first line whose
\* trimmed text starts with "version" and that has a second piece when
\* split at the double quote gives "<piece>-dev".
RECURSIVE ScanToml(_)
ScanToml(ls) ==
    IF ls = <<>> THEN Ok(Sentinel)
    ELSE IF StartsWith(Trim(Head(ls)), sVersion) /\ Len(Split(Head(ls), QUOTE)) >= 2
         THEN Ok(Split(Head(ls), QUOTE)[2] \o sDev)
         ELSE ScanToml(Tail(ls))

\* The part of get_version after the git query did not give the version.
FromToml(toml) ==
    IF ~toml.exists THEN Ok(Sentinel)
    ELSE IF ~toml.readable THEN Err            \* fs::read_to_string(..)?
    ELSE ScanToml(Lines(toml.content))

\* The part of get_version after the override was not used.
FromGit(git, toml) ==
    IF git.spawned /\ git.success
    THEN IF git.utf8 THEN Ok(Trim(git.stdout))
         ELSE Err                              \* String::from_utf8(..)?
    ELSE FromToml(toml)

\* get_version asking git before looking at the override.
GetVersionGitFirst(env, git, toml) ==
    IF git.spawned /\ git.success /\ git.utf8 THEN Ok(Trim(git.stdout))
    ELSE IF env.st = "Ok" /\ env.val # <<>> THEN Ok(env.val)
    ELSE FromToml(toml)

GetVersion(env, git, toml) ==
    IF env.st = "Ok" /\ env.val # <<>> THEN Ok(env.val)
    ELSE FromGit(git, toml)

-----------------------------------------------------------------------------
(* update_module_prop                                                      *)

sVersionEq == sVersion \o <<"=">>
sVersionCodeEq == sVersion \o <<"C", "o", "d", "e", "=">>

\* The characters of the model's texts, in a fixed order; a character's
\* code is its place in the order.
Chars ==
    << LF, CR, "\t", " ", QUOTE, "#", "-", ".", "0", "1", "2", "3", "4", "5",
       "6", "7", "8", "9", "=", "?", "C", "a", "c", "d", "e", "i", "k", "m",
       "n", "o", "r", "s", "u", "v", "w", "x" >>

CharCode(c) == CHOOSE i \in 1..Len(Chars) : Chars[i] = c

\* DefaultHasher::new(), version.hash(..), hasher.finish(): a fixed function
\* of the characters of the text and of nothing else. The 64-bit SipHash of
\* the standard library is represented by a polynomial hash whose values
\* exceed the modulus of the version code.
HashMul == 31
HashRange == 1000003

RECURSIVE HashFrom(_, _)
HashFrom(h, s) ==
    IF s = <<>> THEN h
    ELSE HashFrom((h * HashMul + CharCode(Head(s))) % HashRange, Tail(s))

DefaultHash(s) == HashFrom(7, s)

CodeModulus == 100000

Digit(d) == Chars[CharCode("0") + d]

\* u32::to_string
RECURSIVE ToDecimal(_)
ToDecimal(n) ==
    IF n < 10 THEN <<Digit(n)>> ELSE ToDecimal(n \div 10) \o <<Digit(n % 10)>>

\* The derived code without the reduction modulo 100000.
VersionCodeNoModulo(envCode, ver) ==
    IF envCode.st = "Ok" THEN envCode.val ELSE ToDecimal(DefaultHash(ver))

\* The override if it is set, and no code at all if it is not.
VersionCodeOrEmpty(envCode, ver) ==
    IF envCode.st = "Ok" THEN envCode.val ELSE <<>>

\* `code` of update_module_prop: the override when env::var gives one,
\* else the hash of the version modulo 100000, in decimal.
VersionCode(envCode, ver) ==
    IF envCode.st = "Ok" THEN envCode.val
    ELSE ToDecimal(DefaultHash(ver) % CodeModulus)

\* The body of the loop leaving the `version=` lines as they are.
PatchLineKeepVersion(line, ver, code) ==
    IF StartsWith(line, sVersionCodeEq) THEN sVersionCodeEq \o code
    ELSE line

\* The body of the loop over content.lines().
PatchLine(line, ver, code) ==
    IF StartsWith(line, sVersionEq) THEN sVersionEq \o ver
    ELSE IF StartsWith(line, sVersionCodeEq) THEN sVersionCodeEq \o code
    ELSE line

PatchLines(ls, ver, code) ==
    [i \in 1..Len(ls) |-> PatchLine(ls[i], ver, code)]

\* update_module_prop on a file that can be read and written: the file
\* after the call.
UpdateModuleProp(file, ver, envCode) ==
    IF ~file.exists THEN file
    ELSE [exists |-> TRUE,
          content |-> Join(PatchLines(Lines(file.content), ver,
                                      VersionCode(envCode, ver)), <<LF>>)]

-----------------------------------------------------------------------------
(* Inputs                                                                  *)

SeqsUpTo(S, n) == UNION {[1..k -> S] : k \in 0..n}

RECURSIVE Concat(_)
Concat(ss) == IF ss = <<>> THEN <<>> ELSE Head(ss) \o Concat(Tail(ss))

NotPresent == [st |-> "NotPresent", val |-> <<>>]
NotUnicode == [st |-> "NotUnicode", val |-> <<>>]
Present(v) == [st |-> "Ok", val |-> v]

EnvVersions ==
    { NotPresent, NotUnicode, Present(<<>>), Present(<<"1", ".", "2">>),
      Present(<<" ", "x", LF>>) }

GitOutcomes ==
    { [spawned |-> FALSE, success |-> FALSE, utf8 |-> TRUE, stdout |-> <<>>],
      [spawned |-> TRUE, success |-> FALSE, utf8 |-> TRUE, stdout |-> <<"v", "9">>],
      [spawned |-> TRUE, success |-> TRUE, utf8 |-> FALSE, stdout |-> <<"?">>],
      [spawned |-> TRUE, success |-> TRUE, utf8 |-> TRUE, stdout |-> <<>>],
      [spawned |-> TRUE, success |-> TRUE, utf8 |-> TRUE, stdout |-> <<"v", "1", LF>>],
      [spawned |-> TRUE, success |-> TRUE, utf8 |-> TRUE,
       stdout |-> <<"v", "1", "-", "d", "i", "r", "t", "y", LF>>] }

TomlLines ==
    { sVersion \o <<"=", QUOTE, "1", QUOTE>>,
      <<" ">> \o sVersion \o <<" ", "=", " ", QUOTE, "2", QUOTE>>,
      <<"n", "a", "m", "e", "=", QUOTE, "x", QUOTE>>,
      sVersion \o <<"=", "3">>,
      sVersion \o <<"=", QUOTE, "4">>,
      <<QUOTE>> \o sVersion \o <<QUOTE, "=", QUOTE, "5", QUOTE>> }

MaxTomlLines == 2

Tomls ==
    { [exists |-> FALSE, readable |-> FALSE, content |-> <<>>],
      [exists |-> TRUE, readable |-> FALSE, content |-> <<>>] }
    \cup { [exists |-> TRUE, readable |-> TRUE,
            content |-> Concat([i \in 1..Len(ls) |-> ls[i] \o <<LF>>])] :
           ls \in SeqsUpTo(TomlLines, MaxTomlLines) }

ManifestLines ==
    { sVersionEq \o <<"0">>, sVersionCodeEq \o <<"1">>, <<"#", "c">>, <<>> }

MaxManifestLines == 3

\* A manifest text: lines ended by "\n" or by "\r\n", the last one ended or
\* not.
ManifestText(ls, eol, final) ==
    Concat([i \in 1..Len(ls) |->
              IF i = Len(ls) /\ ~final THEN ls[i] ELSE ls[i] \o eol])

Manifests ==
    { [exists |-> FALSE, content |-> <<>>] }
    \cup { [exists |-> TRUE, content |-> ManifestText(ls, eol, final)] :
           ls \in SeqsUpTo(ManifestLines, MaxManifestLines),
           eol \in {<<LF>>, <<CR, LF>>}, final \in BOOLEAN }

PatchVersions == { <<"1", ".", "2">>, <<"v", "1">>, Sentinel }

EnvCodes == { NotPresent, NotUnicode, Present(<<"7">>), Present(<<>>), Present(<<"x">>) }

MaxCalls == 2

\* The variables of get_version and update_module_prop taken alone, at rest.
InitPatchIdle ==
    /\ mInput = [exists |-> FALSE, content |-> <<>>]
    /\ mFile = mInput
    /\ mVersion = <<>>
    /\ mEnvCode = NotPresent
    /\ mCalls = 0
    /\ mOnce = mInput

InitVersionIdle ==
    /\ vEnv = NotPresent
    /\ vGit = [spawned |-> FALSE, success |-> FALSE, utf8 |-> TRUE, stdout |-> <<>>]
    /\ vToml = [exists |-> FALSE, readable |-> FALSE, content |-> <<>>]
    /\ vRes = NoResult

-----------------------------------------------------------------------------
(* build_full: files and directories                                       *)

MaxInv == 2

Archs == {"Arm64", "X86_64"}

\* Arch::target
Target(arch) == IF arch = "Arm64" THEN "arm64-v8a" ELSE "x86_64"

\* Arch::android_abi
AndroidAbi(arch) == IF arch = "Arm64" THEN "aarch64-linux-android" ELSE "x86_64-linux-android"

BinName == "meta-hybrid"

\* A list that has its first architecture a second time at the end.
ArchsToBuildRepeated(target_arch) ==
    IF target_arch = "None" THEN <<"Arm64", "X86_64", "Arm64">>
    ELSE <<target_arch, target_arch>>

\* `archs_to_build`
ArchsToBuild(target_arch) ==
    IF target_arch = "None" THEN <<"Arm64", "X86_64">> ELSE <<target_arch>>

\* `src_bin`
SrcBin(arch, release) ==
    <<"target", AndroidAbi(arch), IF release THEN "release" ELSE "debug", BinName>>

\* `stage_bin_dir`, and the staged binary in it, relative to the staging root
StageBinDir(arch) == <<"binaries", Target(arch)>>
StageBin(arch) == StageBinDir(arch) \o <<BinName>>

\* stage_dir.join(".gitignore") and stage_dir.join("module.prop")
GitIgnore == <<".gitignore">>
ModuleProp == <<"module.prop">>

\* A tree is a function from the paths of its files (relative to its root)
\* to the files: where the file was copied from, its text, and the
\* invocation that put it there.
File(src, text, by) == [src |-> src, text |-> text, by |-> by]

Put(tree, p, f) ==
    [q \in DOMAIN tree \cup {p} |-> IF q = p THEN f ELSE tree[q]]

Remove(tree, p) == [q \in DOMAIN tree \ {p} |-> tree[q]]

\* The directories above a path, the root <<>> among them.
DirsAbove(p) == {SubSeq(p, 1, k) : k \in 0..(Len(p) - 1)}

NoOutput == [exists |-> FALSE, files |-> <<>>, dirs |-> {}, zips |-> <<>>]

\* The staging directory removed instead of the output root: the archives
\* next to it stay.
RemoveStagingOnly(o) == [o EXCEPT !.files = <<>>, !.dirs = {}]

\* fs::remove_dir_all(output_dir) leaving the output root in place.
RemoveDirAllKeep(o) == o

\* fs::remove_dir_all(output_dir)
RemoveDirAll(o) == NoOutput

\* Lines 103-106 when nothing fails: the output root removed if it exists,
\* and the empty staging directory created.
CleanOutputDir(o) ==
    LET c == IF o.exists THEN RemoveDirAll(o) ELSE o
    IN  [c EXCEPT !.exists = TRUE, !.dirs = c.dirs \cup {<<>>}]

\* fs::create_dir_all(&stage_bin_dir)
CreateDirAll(o, d) == [o EXCEPT !.dirs = o.dirs \cup DirsAbove(d) \cup {d}]

\* The copy of the binary made whether or not src_bin exists.
CopyBinaryAlways(o, arch, release, found, by) ==
    [o EXCEPT !.files = Put(o.files, StageBin(arch), File(SrcBin(arch, release), <<>>, by))]

\* Lines 130-138: file::copy(src_bin, stage_bin_dir/bin_name, overwrite) if
\* src_bin exists.
CopyBinary(o, arch, release, found, by) ==
    IF found
    THEN [o EXCEPT !.files = Put(o.files, StageBin(arch),
                                 File(SrcBin(arch, release), <<>>, by))]
    ELSE o

\* dir::copy without overwrite: a file already staged is kept.
DirCopyKeepExisting(o, module, by) ==
    [o EXCEPT
       !.files = [q \in DOMAIN o.files \cup DOMAIN module |->
                    IF q \in DOMAIN o.files THEN o.files[q]
                    ELSE File(<<"module">> \o q, module[q], by)],
       !.dirs = o.dirs \cup UNION {DirsAbove(q) : q \in DOMAIN module}]

\* dir::copy(module_src, stage_dir, overwrite, content_only): every file of
\* the module directory lands at its relative path under the staging root,
\* replacing what is there.
DirCopy(o, module, by) ==
    [o EXCEPT
       !.files = [q \in DOMAIN o.files \cup DOMAIN module |->
                    IF q \in DOMAIN module
                    THEN File(<<"module">> \o q, module[q], by)
                    ELSE o.files[q]],
       !.dirs = o.dirs \cup UNION {DirsAbove(q) : q \in DOMAIN module}]

\* Lines 144-147: stage_dir/.gitignore removed if it exists.
RemoveGitIgnore(o) ==
    IF GitIgnore \in DOMAIN o.files
    THEN [o EXCEPT !.files = Remove(o.files, GitIgnore)]
    ELSE o

\* update_module_prop writing a manifest where there was none.
PatchStagedCreates(o, ver, envCode, by) ==
    LET old == IF ModuleProp \in DOMAIN o.files THEN o.files[ModuleProp].text ELSE <<>>
        new == UpdateModuleProp([exists |-> TRUE, content |-> old], ver, envCode)
    IN  [o EXCEPT !.files = Put(o.files, ModuleProp, File(ModuleProp, new.content, by))]

\* update_module_prop(stage_dir/module.prop, version) on the staging tree.
PatchStaged(o, ver, envCode, by) ==
    IF ModuleProp \notin DOMAIN o.files THEN o
    ELSE LET f == o.files[ModuleProp]
             new == UpdateModuleProp([exists |-> TRUE, content |-> f.text], ver, envCode)
         IN  [o EXCEPT !.files = Put(o.files, ModuleProp, File(f.src, new.content, by))]

\* The directories of the tree that hold no file and no directory.
EmptyDirs(o) ==
    {d \in o.dirs :
        /\ \A q \in DOMAIN o.files : ~(Len(q) > Len(d) /\ SubSeq(q, 1, Len(d)) = d)
        /\ \A e \in o.dirs : ~(Len(e) > Len(d) /\ SubSeq(e, 1, Len(d)) = d)}

\* An archive of the regular files only.
ZipFilesOnly(o, ver, by) ==
    LET entry == [files |-> o.files, dirs |-> {}, by |-> by]
    IN  [o EXCEPT !.zips = [v \in DOMAIN o.zips \cup {ver} |->
                              IF v = ver THEN entry ELSE o.zips[v]]]

\* zip_create_from_directory_with_options(zip_file, stage_dir, ..): one
\* entry per regular file and per empty directory, at its path relative to
\* the staging root.
ZipCreateFromDirectory(o, ver, by) ==
    LET entry == [files |-> o.files, dirs |-> EmptyDirs(o) \ {<<>>}, by |-> by]
    IN  [o EXCEPT !.zips = [v \in DOMAIN o.zips \cup {ver} |->
                              IF v = ver THEN entry ELSE o.zips[v]]]

\* The status of a subprocess ignored.
AfterStatusIgnored(res, next) == next

\* `if !status.success() { bail!(..) }`, and the `?` on the spawn: the next
\* step of build_full after a subprocess.
AfterStatus(res, next) == IF res = "ok" THEN next ELSE "failed"

\* An error of a step dropped: build_full goes on to the step after it.
PropagateSwallowed(next) == next

\* The `?` on a step of build_full that returned an error: build_full
\* returns it, so the step that would have come next does not run.
Propagate(next) == "failed"

-----------------------------------------------------------------------------
(* build_full: inputs                                                      *)

BuildArgs ==
    [release : BOOLEAN, skip_webui : BOOLEAN, target_arch : {"None"} \cup Archs]

PipeEnvVersions == {NotPresent, Present(<<"1", ".", "2">>)}

PipeGitOutcomes ==
    {g \in GitOutcomes : ~(g.spawned /\ g.success /\ g.utf8) \/ g.stdout = <<"v", "1", LF>>}

PipeTomls == {t \in Tomls : ~t.readable}

PipeEnvCodes == {NotPresent, Present(<<"7">>)}

PipeManifest == ManifestText(<<sVersionEq \o <<"0">>, sVersionCodeEq \o <<"1">>>>, <<LF>>, TRUE)

\* The files a module directory can hold.
ModulePaths ==
    {ModuleProp, <<"customize.sh">>, GitIgnore, <<"webroot", ".gitignore">>, StageBin("Arm64")}

\* The module directories: the text of each file they hold.
ModuleSources ==
    UNION {[ps -> {<<>>}] : ps \in SUBSET (ModulePaths \ {ModuleProp})}
    \cup {[q \in ps \cup {ModuleProp} |-> IF q = ModuleProp THEN PipeManifest ELSE <<>>] :
            ps \in SUBSET (ModulePaths \ {ModuleProp})}

\* Results of a subprocess: it could not be started (or waited for), it
\* exited with a failure status, it exited with status zero.
ProcResults == {"spawn_error", "fail", "ok"}

Event(kind, name, arch, res) == [kind |-> kind, name |-> name, arch |-> arch, res |-> res]

-----------------------------------------------------------------------------
(* build_full: steps                                                       *)

InitBuildIdle ==
    /\ pc = "idle"
    /\ inv = 0
    /\ args = [release |-> FALSE, skip_webui |-> FALSE, target_arch |-> "None"]
    /\ version = <<>>
    /\ idx = 1
    /\ out = NoOutput
    /\ webConst = <<>>
    /\ log = <<>>
    /\ present = {}
    /\ overlay = {}
    /\ stale = FALSE
    /\ staleZip = FALSE

Init == InitBuildIdle /\ InitVersionIdle /\ InitPatchIdle

Step(next, ev) ==
    /\ pc' = next
    /\ log' = Append(log, ev)

\* main: the build command is run.
Invoke ==
    /\ pc \in {"idle", "done", "failed"}
    /\ inv < MaxInv
    /\ inv' = inv + 1
    /\ \E a \in BuildArgs : args' = a
    /\ pc' = "clean"
    /\ log' = <<>>
    /\ version' = <<>>
    /\ idx' = 1
    /\ present' = {}
    /\ overlay' = {}
    /\ stale' = (DOMAIN out.files # {})
    /\ staleZip' = (DOMAIN out.zips # {})
    /\ UNCHANGED <<varsVersion, varsPatch, out, webConst>>

\* Lines 101-106.
CleanOutput ==
    /\ pc = "clean"
    /\ \/ /\ out.exists                     \* fs::remove_dir_all(..)? fails
          /\ Step(Propagate("version"), Event("fs", "remove_dir_all", "", "error"))
          /\ UNCHANGED out
       \/ /\ out' = (IF out.exists THEN RemoveDirAll(out) ELSE out)
          /\ Step(Propagate("version"), Event("fs", "create_dir_all", "", "error"))
       \/ /\ out' = CleanOutputDir(out)
          /\ Step("version", Event("fs", "clean", "", "ok"))
    /\ UNCHANGED <<varsVersion, varsPatch, inv, args, version, idx, webConst, present, overlay, stale, staleZip>>

\* What get_version did with git: nothing when the override is used
\* (lines 233-237), otherwise the query of lines 238-241 and how it ended.
GitQuery(e, g) ==
    IF e.st = "Ok" /\ e.val # <<>> THEN <<>>
    ELSE <<Event("vcs", "git describe", "",
                 IF ~g.spawned THEN "spawn_error"
                 ELSE IF ~g.success THEN "fail" ELSE "ok")>>

\* Line 107.
ResolveVersion ==
    /\ pc = "version"
    /\ \E e \in PipeEnvVersions, g \in PipeGitOutcomes, t \in PipeTomls :
         LET r == GetVersion(e, g, t)
             next == IF args.skip_webui THEN "compile" ELSE "webui"
         IN  IF r.ok
             THEN /\ version' = r.val
                  /\ pc' = next
                  /\ log' = log \o GitQuery(e, g)
                                \o <<Event("version", "get_version", "", "ok")>>
             ELSE /\ version' = version
                  /\ pc' = Propagate(next)
                  /\ log' = log \o GitQuery(e, g)
                                \o <<Event("version", "get_version", "", "error")>>
    /\ UNCHANGED <<varsVersion, varsPatch, inv, args, idx, out, webConst, present, overlay, stale, staleZip>>

\* generate_webui_constants, lines 182-206.
GenerateWebuiConstants ==
    /\ pc = "webui"
    /\ \/ /\ UNCHANGED webConst           \* create_dir_all / fs::write fails
          /\ Step(Propagate("pnpm_install"), Event("fs", "constants_gen", "", "error"))
       \/ /\ webConst' = version            \* old_path absent, or removed
          /\ Step("pnpm_install", Event("fs", "constants_gen", "", "ok"))
       \/ /\ webConst' = version            \* `let _ = fs::remove_file(old_path)` fails
          /\ pc' = "pnpm_install"
          /\ log' = log \o <<Event("fs", "constants_gen", "", "ok"),
                             Event("fs", "remove constants_gen.js", "", "error")>>
    /\ UNCHANGED <<varsVersion, varsPatch, inv, args, version, idx, out, present, overlay, stale, staleZip>>

\* build_webui, lines 165-171.
PnpmInstall ==
    /\ pc = "pnpm_install"
    /\ \E res \in ProcResults :
         Step(AfterStatus(res, "pnpm_build"), Event("proc", "pnpm install", "", res))
    /\ UNCHANGED <<varsVersion, varsPatch, inv, args, version, idx, out, webConst, present, overlay, stale, staleZip>>

\* build_webui, lines 172-179.
PnpmBuild ==
    /\ pc = "pnpm_build"
    /\ \E res \in ProcResults :
         Step(AfterStatus(res, "compile"), Event("proc", "pnpm run build", "", res))
    /\ UNCHANGED <<varsVersion, varsPatch, inv, args, version, idx, out, webConst, present, overlay, stale, staleZip>>

CurrentArch == ArchsToBuild(args.target_arch)[idx]

\* compile_core, lines 208-230, called at line 121.
CompileCore ==
    /\ pc = "compile"
    /\ \E res \in ProcResults :
         Step(AfterStatus(res, "stage_bin"), Event("proc", "cargo ndk", CurrentArch, res))
    /\ UNCHANGED <<varsVersion, varsPatch, inv, args, version, idx, out, webConst, present, overlay, stale, staleZip>>

\* Lines 122-139: the rest of the body of the loop, and the loop's test.
StageBinary ==
    /\ pc = "stage_bin"
    /\ LET arch == CurrentArch
           next == IF idx = Len(ArchsToBuild(args.target_arch)) THEN "overlay" ELSE "compile"
       IN  \/ /\ Step(Propagate(next), Event("fs", "create_dir_all", arch, "error"))
              /\ UNCHANGED <<out, present, idx>>
           \/ \E found \in BOOLEAN :
                \/ /\ found                 \* file::copy(..)? fails
                   /\ out' = CreateDirAll(out, StageBinDir(arch))
                   /\ Step(Propagate(next), Event("fs", "copy", arch, "error"))
                   /\ UNCHANGED <<present, idx>>
                \/ /\ out' = CopyBinary(CreateDirAll(out, StageBinDir(arch)),
                                        arch, args.release, found, inv)
                   /\ present' = IF found THEN present \cup {arch} ELSE present
                   /\ idx' = idx + 1
                   /\ Step(next, IF found THEN Event("fs", "copy", arch, "ok")
                                 ELSE Event("warn", "Binary not found", arch, "ok"))
    /\ UNCHANGED <<varsVersion, varsPatch, inv, args, version, webConst, overlay, stale, staleZip>>

\* Lines 140-143.
CopyModule ==
    /\ pc = "overlay"
    /\ \/ /\ Step(Propagate("cleanup"), Event("fs", "dir::copy", "", "error"))
          /\ UNCHANGED <<out, overlay>>
       \/ \E m \in ModuleSources :
            /\ out' = DirCopy(out, m, inv)
            /\ overlay' = DOMAIN m
            /\ Step("cleanup", Event("fs", "dir::copy", "", "ok"))
    /\ UNCHANGED <<varsVersion, varsPatch, inv, args, version, idx, webConst, present, stale, staleZip>>

\* Lines 144-147.
CleanupGitIgnore ==
    /\ pc = "cleanup"
    /\ \/ /\ GitIgnore \in DOMAIN out.files \* fs::remove_file(..)? fails
          /\ Step(Propagate("patch"), Event("fs", "remove_file", "", "error"))
          /\ UNCHANGED out
       \/ /\ out' = RemoveGitIgnore(out)
          /\ Step("patch", Event("fs", "cleanup", "", "ok"))
    /\ UNCHANGED <<varsVersion, varsPatch, inv, args, version, idx, webConst, present, overlay, stale, staleZip>>

\* Lines 148-149.
PatchManifest ==
    /\ pc = "patch"
    /\ \/ /\ ModuleProp \in DOMAIN out.files \* read_to_string / write fails
          /\ Step(Propagate("zip"), Event("fs", "update_module_prop", "", "error"))
          /\ UNCHANGED out
       \/ \E c \in PipeEnvCodes :
            /\ out' = PatchStaged(out, version, c, inv)
            /\ Step("zip", Event("fs", "update_module_prop", "", "ok"))
    /\ UNCHANGED <<varsVersion, varsPatch, inv, args, version, idx, webConst, present, overlay, stale, staleZip>>

\* Lines 150-158.
CreateZip ==
    /\ pc = "zip"
    /\ \/ /\ Step(Propagate("done"), Event("fs", "zip", "", "error"))
          /\ UNCHANGED out
       \/ /\ out' = ZipCreateFromDirectory(out, version, inv)
          /\ Step("done", Event("fs", "zip", "", "ok"))
    /\ UNCHANGED <<varsVersion, varsPatch, inv, args, version, idx, webConst, present, overlay, stale, staleZip>>

Next ==
    \/ Invoke
    \/ CleanOutput
    \/ ResolveVersion
    \/ GenerateWebuiConstants
    \/ PnpmInstall
    \/ PnpmBuild
    \/ CompileCore
    \/ StageBinary
    \/ CopyModule
    \/ CleanupGitIgnore
    \/ PatchManifest
    \/ CreateZip

Spec == Init /\ [][Next]_vars

\* The steps of build_full. main calls build_full and build_full runs its
\* statements one after the other, each a blocking call: a step that can
\* be taken is taken, provided the subprocess it waits for exits.
Run ==
    \/ CleanOutput
    \/ ResolveVersion
    \/ GenerateWebuiConstants
    \/ PnpmInstall
    \/ PnpmBuild
    \/ CompileCore
    \/ StageBinary
    \/ CopyModule
    \/ CleanupGitIgnore
    \/ PatchManifest
    \/ CreateZip

SpecFair == Init /\ [][Next]_vars /\ WF_vars(Run)

-----------------------------------------------------------------------------
(* get_version taken alone                                                 *)

InitVersion ==
    /\ vEnv \in EnvVersions
    /\ vGit \in GitOutcomes
    /\ vToml \in Tomls
    /\ vRes = NoResult
    /\ InitPatchIdle
    /\ InitBuildIdle

CallGetVersion ==
    /\ vRes = NoResult
    /\ vRes' = GetVersion(vEnv, vGit, vToml)
    /\ UNCHANGED <<vEnv, vGit, vToml, varsPatch, varsBuild>>

NextVersion == CallGetVersion

SpecVersion == InitVersion /\ [][NextVersion]_vars

-----------------------------------------------------------------------------
(* update_module_prop taken alone                                          *)

InitPatch ==
    /\ mInput \in Manifests
    /\ mFile = mInput
    /\ mVersion \in PatchVersions
    /\ mEnvCode \in EnvCodes
    /\ mCalls = 0
    /\ mOnce = mInput
    /\ InitVersionIdle
    /\ InitBuildIdle

CallUpdateModuleProp ==
    /\ mCalls < MaxCalls
    /\ mFile' = UpdateModuleProp(mFile, mVersion, mEnvCode)
    /\ mCalls' = mCalls + 1
    /\ mOnce' = IF mCalls = 0 THEN mFile' ELSE mOnce
    /\ UNCHANGED <<mInput, mVersion, mEnvCode, varsVersion, varsBuild>>

NextPatch == CallUpdateModuleProp

SpecPatch == InitPatch /\ [][NextPatch]_vars

-----------------------------------------------------------------------------
(* Properties of get_version (SpecVersion)                                 *)

Called == vRes # NoResult

OverrideSet == vEnv.st = "Ok" /\ vEnv.val # <<>>

\* C3: whenever META_HYBRID_VERSION is set to a non-empty string,
\* get_version returns exactly that string, untrimmed and unchanged,
\* whatever the git query gave and whatever module/config.toml contains.
C3_OverrideVerbatim == (Called /\ OverrideSet) => vRes = Ok(vEnv.val)

\* The override has surrounding whitespace, git succeeded with another
\* text and the config file exists: the override came back as it was.
C3_Witness ==
    /\ Called
    /\ vEnv = Present(<<" ", "x", LF>>)
    /\ vGit.spawned /\ vGit.success /\ vGit.utf8 /\ vGit.stdout # <<>>
    /\ vToml.exists /\ vToml.readable /\ vToml.content # <<>>
    /\ vRes = Ok(<<" ", "x", LF>>)

\* A line of the fallback config that counts: its trimmed text starts with
\* `version` and it has a double quote.
C4_Qualifies(l) == StartsWith(Trim(l), sVersion) /\ Contains(l, QUOTE)

\* The quoted value of such a line: the text after its first double quote,
\* up to the next one (or to the end of the line).
C4_QuotedValue(l) ==
    LET rest == SubSeq(l, FirstIndex(l, QUOTE) + 1, Len(l))
    IN  IF Contains(rest, QUOTE) THEN SubSeq(rest, 1, FirstIndex(rest, QUOTE) - 1)
        ELSE rest

C4_FromConfig ==
    LET ls == IF vToml.exists /\ vToml.readable THEN Lines(vToml.content) ELSE <<>>
        q == {i \in 1..Len(ls) : C4_Qualifies(ls[i])}
    IN  IF q # {}
        THEN C4_QuotedValue(ls[CHOOSE i \in q : \A j \in q : i <= j]) \o sDev
        ELSE Sentinel

C4_Expected ==
    IF OverrideSet THEN vEnv.val
    ELSE IF vGit.spawned /\ vGit.success THEN Trim(vGit.stdout)
    ELSE C4_FromConfig

\* C4: get_version returns the override if present and non-empty; otherwise
\* the trimmed output of the git query if it exited with status zero;
\* otherwise the quoted value of the first qualifying line of the config
\* file followed by `-dev`; otherwise the sentinel.
C4_FallbackOrder == Called => vRes = Ok(C4_Expected)

\* C5: get_version never returns an error, whatever the outcome of each
\* source.
C5_NeverAborts == Called => vRes.ok

-----------------------------------------------------------------------------
(* Properties of update_module_prop (SpecPatch)                            *)

C6_ExpectedLine(l) ==
    IF StartsWith(l, sVersionEq) THEN sVersionEq \o mVersion
    ELSE IF StartsWith(l, sVersionCodeEq)
         THEN sVersionCodeEq \o VersionCode(mEnvCode, mVersion)
    ELSE l

\* C6: the manifest written has as many lines as the manifest read, in the
\* same order; line i is `version=<version>` or `versionCode=<code>` if
\* line i of the input starts with that key, and line i of the input
\* otherwise, blank lines included.
C6_LineRewrite ==
    (mCalls = 1 /\ mInput.exists) =>
        LET inL == Lines(mInput.content)
            outL == Lines(mFile.content)
        IN  /\ Len(outL) = Len(inL)
            /\ \A i \in 1..Len(inL) : outL[i] = C6_ExpectedLine(inL[i])

\* C7: a second call with the same version and the same environment leaves
\* the file as the first call left it.
C7_Idempotent == mCalls = 2 => mFile = mOnce

Digits == {Digit(d) : d \in 0..9}

DigitValue(c) == CharCode(c) - CharCode("0")

RECURSIVE ParseDecimal(_)
ParseDecimal(s) ==
    IF s = <<>> THEN 0
    ELSE 10 * ParseDecimal(SubSeq(s, 1, Len(s) - 1)) + DigitValue(s[Len(s)])

\* An unsigned decimal numeral of a number in 0..99999.
C10_IsCode(tok) ==
    /\ Len(tok) \in 1..5
    /\ \A i \in 1..Len(tok) : tok[i] \in Digits
    /\ (Len(tok) > 1 => tok[1] # "0")
    /\ ParseDecimal(tok) \in 0..(CodeModulus - 1)

\* C10: without a version-code override, every `versionCode=` line of the
\* manifest is written with the hash of the version string modulo 100000,
\* an unsigned decimal in 0..99999 that depends on the version string only.
C10_DerivedCode ==
    (mCalls >= 1 /\ mInput.exists /\ mEnvCode.st # "Ok") =>
        LET inL == Lines(mInput.content)
            outL == Lines(mFile.content)
        IN  \A i \in 1..Len(outL) :
                StartsWith(inL[i], sVersionCodeEq) =>
                    LET tok == SubSeq(outL[i], Len(sVersionCodeEq) + 1, Len(outL[i]))
                    IN  /\ StartsWith(outL[i], sVersionCodeEq)
                        /\ C10_IsCode(tok)
                        /\ ParseDecimal(tok) = DefaultHash(mVersion) % CodeModulus

\* A manifest with a `versionCode=` line was patched without an override,
\* for a version whose hash exceeds the modulus.
C10_Witness ==
    /\ mCalls >= 1 /\ mInput.exists /\ mEnvCode = NotPresent
    /\ DefaultHash(mVersion) >= CodeModulus
    /\ \E i \in 1..Len(Lines(mFile.content)) :
           /\ StartsWith(Lines(mInput.content)[i], sVersionCodeEq)
           /\ Lines(mFile.content)[i] # Lines(mInput.content)[i]

-----------------------------------------------------------------------------
(* Properties of build_full (Spec)                                         *)

\* The archive this invocation created, if it created one.
HasArchive == version \in DOMAIN out.zips /\ out.zips[version].by = inv

Archive == out.zips[version]

NoArchiveOfThisInvocation == \A v \in DOMAIN out.zips : out.zips[v].by # inv

Selected == {ArchsToBuild(args.target_arch)[i] : i \in 1..Len(ArchsToBuild(args.target_arch))}

\* C1: once pnpm install, pnpm run build or a cargo ndk compile has exited
\* with a failure status, the invocation is in the failed state and that
\* subprocess is the last thing it did: no later step ran, the binary of
\* the failed architecture was not staged, the module directory was not
\* copied, and this invocation created no archive.
C1_AbortOnSubprocessFailure ==
    \A i \in 1..Len(log) :
        (log[i].kind = "proc" /\ log[i].res = "fail") =>
            /\ i = Len(log)
            /\ pc = "failed"
            /\ overlay = {}
            /\ (log[i].name = "cargo ndk" => StageBin(log[i].arch) \notin DOMAIN out.files)
            /\ NoArchiveOfThisInvocation

\* The compile of the second architecture failed after the binary of the
\* first one had been staged.
C1_Witness ==
    /\ pc = "failed"
    /\ log # <<>>
    /\ log[Len(log)] = Event("proc", "cargo ndk", "X86_64", "fail")
    /\ present = {"Arm64"}
    /\ StageBin("Arm64") \in DOMAIN out.files

\* The clean step of this invocation succeeded.
Cleaned == log # <<>> /\ log[1] = Event("fs", "clean", "", "ok")

\* C2: after the clean step of an invocation, every file of the staging
\* tree was staged by that invocation, and so was every entry of every
\* archive in the output root; an archive never holds an entry staged by
\* another invocation than the one that created it.
C2_CleanBuild ==
    /\ Cleaned =>
          /\ \A q \in DOMAIN out.files : out.files[q].by = inv
          /\ \A v \in DOMAIN out.zips : out.zips[v].by = inv
    /\ \A v \in DOMAIN out.zips :
          \A q \in DOMAIN out.zips[v].files : out.zips[v].files[q].by = out.zips[v].by

\* A later invocation found staged files in the output root, and created
\* an archive that has entries.
C2_Witness ==
    /\ inv >= 2 /\ stale /\ pc = "done"
    /\ HasArchive
    /\ DOMAIN Archive.files # {}

IsMarker(q) == q # <<>> /\ q[Len(q)] = ".gitignore"

\* C8: once the module directory has been copied and the cleanup step has
\* run, no .gitignore exists anywhere in the staging tree, and none is an
\* entry of the archive.
C8_NoMarkerStaged ==
    /\ pc \in {"patch", "zip", "done"} => \A q \in DOMAIN out.files : ~IsMarker(q)
    /\ HasArchive => \A q \in DOMAIN Archive.files : ~IsMarker(q)

\* The events of the log that are errors: a file operation or a step that
\* returned Err, a subprocess that could not be run or exited non-zero.
Failure(e) == e.kind \in {"fs", "proc", "vcs", "version"} /\ e.res # "ok"

\* The errors the code drops on purpose: the git query of get_version
\* (lines 238-245) and the removal of the old constants_gen.js (line 203).
Dropped(e) == e.kind = "vcs" \/ e.name = "remove constants_gen.js"

\* No step of this invocation returned an error so far.
NothingFailed == \A i \in 1..Len(log) : Failure(log[i]) => Dropped(log[i])

Warnings(a) == Cardinality({i \in 1..Len(log) : log[i].kind = "warn" /\ log[i].arch = a})

\* The archive holds, at the staged path of the architecture, the binary
\* compiled for it.
ArchiveHasBinary(a) ==
    /\ StageBin(a) \in DOMAIN Archive.files
    /\ Archive.files[StageBin(a)].src = SrcBin(a, args.release)

LaterStep(i) == \E j \in (i + 1)..Len(log) : log[j].kind # "version"

Below(p, d) == Len(p) > Len(d) /\ SubSeq(p, 1, Len(d)) = d

\* C12: when the invocation is done, the entries of its archive are the
\* regular files of the staging tree, each at its path relative to the
\* staging root and with the staged content, and the directories of the
\* staging tree that hold nothing, at their relative paths.
C12_ArchiveFidelity ==
    pc = "done" =>
        /\ HasArchive
        /\ DOMAIN Archive.files = DOMAIN out.files
        /\ \A q \in DOMAIN out.files :
              /\ Archive.files[q].src = out.files[q].src
              /\ Archive.files[q].text = out.files[q].text
        /\ Archive.dirs =
              {d \in out.dirs \ {<<>>} :
                  /\ \A q \in DOMAIN out.files : ~Below(q, d)
                  /\ \A e \in out.dirs : ~Below(e, d)}

\* The archive of an invocation that staged one binary, found the other
\* one absent and copied a module directory: it has file entries in
\* subdirectories and the empty directory of the absent binary.
C12_Witness ==
    /\ pc = "done" /\ HasArchive
    /\ present = {"X86_64"}
    /\ StageBin("X86_64") \in DOMAIN Archive.files
    /\ ModuleProp \in DOMAIN Archive.files
    /\ StageBinDir("Arm64") \in Archive.dirs

PnpmEvents == {i \in 1..Len(log) : log[i].name \in {"pnpm install", "pnpm run build"}}

\* Every compile subprocess run so far exited with status zero.
CompilesSucceeded ==
    \A i \in 1..Len(log) : log[i].name = "cargo ndk" => log[i].res = "ok"

\* get_version returned an error after a git query that exited with status
\* zero: the error is the one of String::from_utf8 (line 244), not one of
\* a file operation.
UndecodableGitOutput ==
    \E i \in 1..(Len(log) - 1) :
        /\ log[i] = Event("vcs", "git describe", "", "ok")
        /\ log[i + 1] = Event("version", "get_version", "", "error")

\* No file operation failed so far: none of build_full and
\* generate_webui_constants, and not the read of module/config.toml in
\* get_version.
NoFileOperationFailed ==
    \A i \in 1..Len(log) :
        /\ log[i].kind = "fs" => log[i].res = "ok"
        /\ (log[i].kind = "version" /\ log[i].res # "ok") => UndecodableGitOutput

\* The staged manifest carries the version of this invocation.
ManifestPatched ==
    ModuleProp \in DOMAIN out.files =>
        LET ls == Lines(out.files[ModuleProp].text)
        IN  \A i \in 1..Len(ls) :
                StartsWith(ls[i], sVersionEq) => ls[i] = sVersionEq \o version

\* C13: with skip_webui, pnpm is never run; the invocation does not fail
\* while the compile subprocesses succeed and no file operation fails; and
\* when it is done, the module directory has been copied into the staging
\* tree, the manifest is patched and the archive exists.
C13_SkipWebui ==
    args.skip_webui =>
        /\ PnpmEvents = {}
        /\ pc = "failed" => ~(CompilesSucceeded /\ NoFileOperationFailed)
        /\ pc = "done" =>
              /\ overlay \ {GitIgnore} \subseteq DOMAIN out.files
              /\ ManifestPatched
              /\ HasArchive

\* C14: when the staging tree has no module.prop, the patch step changes
\* nothing in the output root or in the generated web constants, it does
\* not fail, and build_full goes on to the archive step.
C14_MissingManifestNoOp ==
    [][(pc = "patch" /\ ModuleProp \notin DOMAIN out.files) =>
          /\ out' = out
          /\ webConst' = webConst
          /\ pc' = "zip"
          /\ log' = Append(log, Event("fs", "update_module_prop", "", "ok"))]_vars

\* The module directory had no module.prop: the patch step passed, and the
\* archive was created without a manifest.
C14_Witness ==
    /\ pc = "done" /\ HasArchive
    /\ overlay # {} /\ ModuleProp \notin overlay
    /\ ModuleProp \notin DOMAIN out.files
    /\ ModuleProp \notin DOMAIN Archive.files
    /\ \E i \in 1..Len(log) : log[i] = Event("fs", "update_module_prop", "", "ok")

Terminal == pc \in {"done", "failed"}

\* Every subprocess run so far, git included, ran and exited with status
\* zero.
SubprocessesSucceeded ==
    \A i \in 1..Len(log) : log[i].kind \in {"proc", "vcs"} => log[i].res = "ok"

NameRank ==
    [name \in {"clean", "remove_dir_all", "git describe", "get_version",
               "constants_gen", "remove constants_gen.js", "pnpm install",
               "pnpm run build", "cargo ndk", "copy", "Binary not found",
               "dir::copy", "cleanup", "remove_file", "update_module_prop", "zip"} |->
        CASE name \in {"clean", "remove_dir_all"} -> 1
          [] name = "git describe" -> 2
          [] name = "get_version" -> 3
          [] name \in {"constants_gen", "remove constants_gen.js"} -> 4
          [] name = "pnpm install" -> 5
          [] name = "pnpm run build" -> 6
          [] name \in {"cargo ndk", "copy", "Binary not found"} -> 7
          [] name = "dir::copy" -> 8
          [] name \in {"cleanup", "remove_file"} -> 9
          [] name = "update_module_prop" -> 10
          [] name = "zip" -> 11]

\* create_dir_all is part of the clean step (line 106) and of the staging
\* of a binary (line 129).
StepRank(e) ==
    IF e.name = "create_dir_all" THEN (IF e.arch = "" THEN 1 ELSE 7)
    ELSE NameRank[e.name]

\* The event is the outcome of a step (not the git query inside
\* get_version, not the ignored removal inside generate_webui_constants).
IsOutcome(e) == ~Dropped(e)

IsCompile(e) == e.name = "cargo ndk"

\* The architectures the arguments select.
SelectedByArgs == IF args.target_arch = "None" THEN Archs ELSE {args.target_arch}

\* The steps every invocation goes through, by rank, the loop aside.
StepsDue == {1, 3, 8, 9, 10, 11} \cup (IF args.skip_webui THEN {} ELSE {4, 5, 6})

\* C16: the steps of an invocation happen in the order clean, version,
\* [constants, pnpm install, pnpm run build], then compile and stage of
\* each selected architecture, then module copy, marker cleanup, manifest
\* patch, archive; each step runs at most once, and only after every step
\* due before it succeeded; each selected architecture is compiled once,
\* its binary staged right after its compile, and all of them before the
\* module copy.
C16_PipelineOrder ==
    LET n == Len(log)
        rk == [i \in 1..n |-> StepRank(log[i])]
    IN  /\ \A i \in 1..(n - 1) :
              /\ rk[i] <= rk[i + 1]
              /\ rk[i] = rk[i + 1] => (rk[i] = 7 \/ ~IsOutcome(log[i + 1]))
        /\ \A j \in 1..n : rk[j] \in StepsDue \cup {2, 7}
        /\ \A r \in StepsDue :
              (\E j \in 1..n : rk[j] > r) =>
                  \E i \in 1..n : rk[i] = r /\ IsOutcome(log[i]) /\ log[i].res = "ok"
        /\ \A i \in 1..n :
              IsCompile(log[i]) =>
                 /\ log[i].arch \in SelectedByArgs
                 /\ \A j \in 1..n :
                       (IsCompile(log[j]) /\ log[j].arch = log[i].arch) => j = i
                 /\ i < n =>
                       /\ log[i].res = "ok"
                       /\ rk[i + 1] = 7 /\ ~IsCompile(log[i + 1])
                       /\ log[i + 1].arch = log[i].arch
        /\ \A i \in 1..n :
              (rk[i] = 7 /\ ~IsCompile(log[i])) =>
                 i > 1 /\ log[i - 1] = Event("proc", "cargo ndk", log[i].arch, "ok")
        /\ (\E j \in 1..n : rk[j] >= 8) =>
              \A a \in SelectedByArgs :
                  \E i \in 1..(n - 1) :
                      /\ log[i] = Event("proc", "cargo ndk", a, "ok")
                      /\ rk[i + 1] = 7 /\ ~IsCompile(log[i + 1])
                      /\ log[i + 1].arch = a /\ log[i + 1].res = "ok"

\* An invocation for both architectures with the web build went through
\* every step and is done.
C16_Witness ==
    /\ pc = "done" /\ args.target_arch = "None" /\ ~args.skip_webui
    /\ Len(log) = 14
    /\ log[2].name = "git describe" /\ log[5].name = "pnpm install"
    /\ log[7] = Event("proc", "cargo ndk", "Arm64", "ok")
    /\ log[9] = Event("proc", "cargo ndk", "X86_64", "ok")
    /\ log[14] = Event("fs", "zip", "", "ok")

\* The module directory has been copied into the staging tree.
Overlaid == \E i \in 1..Len(log) : log[i] = Event("fs", "dir::copy", "", "ok")

\* The file of a tree at the staged path of an architecture is the one
\* the module directory supplied if it supplied one there, the compiled
\* binary otherwise.
C17_AtStagedPath(tree, a) ==
    IF StageBin(a) \in overlay
    THEN /\ StageBin(a) \in DOMAIN tree
         /\ tree[StageBin(a)].src = <<"module">> \o StageBin(a)
    ELSE a \in present =>
            /\ StageBin(a) \in DOMAIN tree
            /\ tree[StageBin(a)].src = SrcBin(a, args.release)

\* C17: once the module directory has been copied, the staging tree (and
\* the archive, once created) holds at binaries/<token>/meta-hybrid the
\* file of the module directory when it has one at that path, and the
\* staged binary of the architecture otherwise.
C17_OverlayWins ==
    /\ Overlaid => \A a \in Archs : C17_AtStagedPath(out.files, a)
    /\ pc = "done" => HasArchive /\ \A a \in Archs : C17_AtStagedPath(Archive.files, a)

\* Both binaries were staged and the module directory has a file at the
\* staged path of the first: the archive holds the module's file there and
\* the compiled binary of the second architecture.
C17_Witness ==
    /\ pc = "done" /\ HasArchive
    /\ present = {"Arm64", "X86_64"}
    /\ StageBin("Arm64") \in overlay
    /\ Archive.files[StageBin("Arm64")].src = <<"module">> \o StageBin("Arm64")
    /\ Archive.files[StageBin("X86_64")].src = SrcBin("X86_64", args.release)

\* A non-negative integer token: one or more decimal digits.
C18_IsNatural(tok) == tok # <<>> /\ \A i \in 1..Len(tok) : tok[i] \in Digits

\* What follows `versionCode=` on every such line of the manifest written
\* is a non-negative integer token.
C18_CodesAreNatural ==
    LET outL == Lines(mFile.content)
    IN  \A i \in 1..Len(outL) :
            StartsWith(outL[i], sVersionCodeEq) =>
                C18_IsNatural(SubSeq(outL[i], Len(sVersionCodeEq) + 1, Len(outL[i])))

\* C18 as stated: whatever META_HYBRID_CODE holds, the value written after
\* `versionCode=` by update_module_prop is a non-negative integer token.
C18_CodeIsInteger == (mCalls >= 1 /\ mInput.exists) => C18_CodesAreNatural

\* C18 as amended: when META_HYBRID_CODE is unset, not Unicode, or a
\* non-negative integer token itself, the value written after
\* `versionCode=` by update_module_prop is a non-negative integer token.
C18_CodeIsIntegerAmended ==
    (/\ mCalls >= 1 /\ mInput.exists
     /\ (mEnvCode.st = "Ok" => C18_IsNatural(mEnvCode.val))) => C18_CodesAreNatural

\* A manifest with a `versionCode=` line was patched under the override 7:
\* the line now carries 7.
C18_Witness ==
    /\ mCalls >= 1 /\ mInput.exists /\ mEnvCode = Present(<<"7">>)
    /\ \E i \in 1..Len(Lines(mFile.content)) :
           /\ Lines(mFile.content)[i] = sVersionCodeEq \o <<"7">>
           /\ Lines(mInput.content)[i] # Lines(mFile.content)[i]

VersionEvents == {i \in 1..Len(log) : log[i].name = "get_version"}

\* C19: get_version is called once per invocation, right after the clean
\* step and before any other step; the version it returned does not change
\* until the next invocation; and when the invocation is done, the archive
\* in the output root is the one named after that version, every
\* `version=` line of the staged manifest carries it, and so does the
\* generated constants file when the web build ran.
C19_OneVersion ==
    /\ [](/\ Cardinality(VersionEvents) <= 1
          /\ \A i \in VersionEvents :
                \A j \in 1..Len(log) : j < i <=> StepRank(log[j]) \in {1, 2}
          /\ VersionEvents = {} => version = <<>>)
    /\ [][(pc # "version" /\ pc' # "clean") => version' = version]_vars
    /\ [](pc = "done" =>
            /\ VersionEvents # {}
            /\ DOMAIN out.zips = {version}
            /\ HasArchive
            /\ ManifestPatched
            /\ (~args.skip_webui => webConst = version))

\* A second invocation resolved another version than the first, ran the
\* web build and patched a manifest: the archive, the manifest and the
\* constants carry the new version.
C19_Witness ==
    /\ inv = 2 /\ pc = "done" /\ ~args.skip_webui /\ staleZip
    /\ version = <<"1", ".", "2">>
    /\ DOMAIN out.zips = {version}
    /\ webConst = version
    /\ ModuleProp \in DOMAIN out.files
    /\ Lines(out.files[ModuleProp].text)[1] = sVersionEq \o version

====
